---- MODULE Spec2Model ----
(***************************************************************************)
(* The shopping-cart store of frontend/src/store/useCartStore.js: a        *)
(* Zustand store holding `items` (cart lines {producto, cantidad}) and     *)
(* `isOpen`, with its actions addItem, removeItem, deleteItem, clearCart,  *)
(* openCart, closeCart, toggleCart and its readers getTotal,               *)
(* getTotalItems and getOrderData, wrapped in the persist middleware that  *)
(* saves { items } under the localStorage key cart-storage.                *)
(*                                                                         *)
(* The API client of frontend/src/services/api.js: productsAPI, ordersAPI  *)
(* and checkServerHealth, each call an async function that issues one      *)
(* fetch, hands the response to handleResponse and, on any failure, logs   *)
(* with console.error and rethrows.                                        *)
(*                                                                         *)
(* The checkout of the Cart component, as the specification and the        *)
(* component's tests describe it: getOrderData(), ordersAPI.create(order), *)
(* clearCart() once the order is created, an error message otherwise.      *)
(*                                                                         *)
(* Arrays are 1-based sequences here; findIndex keeps JavaScript's 0-based *)
(* result (-1 when nothing matches), so array position k is sequence       *)
(* position k + 1.                                                         *)
(***************************************************************************)
EXTENDS Integers, Sequences, FiniteSets, TLC

----------------------------------------------------------------------------
(* Bounds of the model.                                                    *)

\* product ids offered to addItem are 1..MaxId
MaxId == 2
\* addItem is not called on a cart that holds MaxUnits units
MaxUnits == 4
\* ids handed to getById, update and delete are 1..MaxEntityId
MaxEntityId == 2
\* store calls the user makes while one checkout is being processed
MaxInterleaved == 1

----------------------------------------------------------------------------
(* Inputs.                                                                 *)

Ids == 1..MaxId

\* an id no product carries, for removeItem / deleteItem of an absent line
AbsentId == MaxId + 1

\* ids handed to removeItem and deleteItem
ArgIds == Ids \cup {AbsentId}

\* Two descriptions per id: the catalogue entry and a later edition of it
\* with another nombre and precio (the cart is handed whatever the caller
\* passes, so the same id can arrive with different fields).
Products ==
    {[id |-> i, nombre |-> "PlayStation 5", precio |-> 75000] : i \in Ids}
        \cup {[id |-> i, nombre |-> "Xbox Series X", precio |-> 65000] : i \in Ids}

\* values of new Date().toISOString() at the time of a getOrderData call
Fechas == {"2025-01-01T10:00:00.000Z", "2025-01-01T10:00:01.000Z"}

----------------------------------------------------------------------------
(* State.                                                                  *)

VARIABLES
    items,      \* the store's items array: sequence of [producto, cantidad]
    isOpen,     \* the store's isOpen flag
    lastOp,     \* the call that produced this state: [op, arg], and
                \* whether it left by an exception
    ret,        \* what that call returned
    prev,       \* items, isOpen and storage as they were when that call
                \* started, the order the call before it returned when
                \* both are getOrderData calls, and what the items array
                \* read before the call shows now that it has returned
    storage,    \* localStorage['cart-storage']: <<>> when the key is not
                \* set, else <<the record persist wrote>>
    addCalls,   \* per id: addItem calls for it since the cart last had no
                \* line for it with no removal call since; -1 once a removal
                \* call happened while the line was present
    calls,      \* the API calls: per slot the operation called, where its
                \* async function stands, the fetch requests it issued, the
                \* response fetch resolved with or the failure it rejected
                \* with, the call's response.json() and console.error calls
                \* and how its promise settled
    checkout    \* the Cart component's checkout: its phase, the order it
                \* sent, the items it started from, whether it has called
                \* clearCart, and how many store calls came in meanwhile

vars == <<items, isOpen, lastOp, ret, prev, storage, addCalls, calls,
          checkout>>

\* the return value of a call that returns nothing
undefined == [type |-> "undefined", number |-> 0, productos |-> <<>>,
              total |-> 0, fecha |-> ""]

number(n) == [type |-> "number", number |-> n, productos |-> <<>>,
              total |-> 0, fecha |-> ""]

NoArg == [id |-> AbsentId, nombre |-> "", precio |-> 0]

\* removeItem and deleteItem take a bare id
IdArg(productId) == [id |-> productId, nombre |-> "", precio |-> 0]

\* history of addItem calls after a removeItem, deleteItem or clearCart
\* that left `after` as the items
AfterRemoval(after) ==
    [i \in Ids |->
        IF \E k \in 1..Len(after) : after[k].producto.id = i THEN -1 ELSE 0]

----------------------------------------------------------------------------
(* Array helpers used by the store.                                        *)

\* Array.prototype.findIndex with the predicate item.producto.id === id
findIndex(currentItems, productId) ==
    LET hits == {k \in 1..Len(currentItems) :
                    currentItems[k].producto.id = productId}
    IN  IF hits = {} THEN -1
        ELSE (CHOOSE k \in hits : \A j \in hits : k <= j) - 1

\* splice with the start index off by one: the following line goes
splice_OffByOne(arr, index) ==
    IF index + 2 > Len(arr) THEN arr
    ELSE [k \in 1..(Len(arr) - 1) |->
             IF k <= index + 1 THEN arr[k] ELSE arr[k + 1]]

\* Array.prototype.splice(index, 1) on a copy
splice(arr, index) ==
    [k \in 1..(Len(arr) - 1) |-> IF k <= index THEN arr[k] ELSE arr[k + 1]]

\* filter with the predicate inverted (=== for !==)
RECURSIVE filter_Inverted(_, _)
filter_Inverted(arr, productId) ==
    IF arr = <<>> THEN <<>>
    ELSE IF Head(arr).producto.id = productId
         THEN <<Head(arr)>> \o filter_Inverted(Tail(arr), productId)
         ELSE filter_Inverted(Tail(arr), productId)

\* Array.prototype.filter with the predicate item.producto.id !== id
RECURSIVE filter(_, _)
filter(arr, productId) ==
    IF arr = <<>> THEN <<>>
    ELSE IF Head(arr).producto.id # productId
         THEN <<Head(arr)>> \o filter(Tail(arr), productId)
         ELSE filter(Tail(arr), productId)

----------------------------------------------------------------------------
(* Exceptions and shared line objects.                                     *)

\* arr[index] is undefined when the array has no element there, and reading
\* a property of undefined raises a TypeError
elementMissing(arr, index) == (index + 1) \notin 1..Len(arr)

\* Array.prototype.reduce raises a TypeError on an empty array when it is
\* given no initial value
reduceRaises(arr, initialValue) == arr = <<>> /\ initialValue = <<>>

\* addItem raises when it reads .cantidad of a line that is not there
addItemRaises(currentItems, product) ==
    LET existingItemIndex == findIndex(currentItems, product.id)
    IN  existingItemIndex >= 0 /\ elementMissing(currentItems, existingItemIndex)

\* removeItem reading the line without testing existingItemIndex >= 0
removeItemRaises_NoGuard(currentItems, productId) ==
    LET existingItemIndex == findIndex(currentItems, productId)
    IN  elementMissing(currentItems, existingItemIndex)

\* removeItem raises when it reads .cantidad of a line that is not there
removeItemRaises(currentItems, productId) ==
    LET existingItemIndex == findIndex(currentItems, productId)
    IN  existingItemIndex >= 0 /\ elementMissing(currentItems, existingItemIndex)

\* getTotal and getTotalItems: their reduce is given the initial value 0
getTotalRaises(currentItems) == reduceRaises(currentItems, <<0>>)

\* whether the call op(arg) on a store holding currentItems leaves by an
\* exception; filter, map and the set() calls raise nothing
raises(op, currentItems, arg) ==
    CASE op = "addItem" -> addItemRaises(currentItems, arg)
      [] op = "removeItem" -> removeItemRaises(currentItems, arg.id)
      [] op \in {"getTotal", "getTotalItems", "getOrderData"} ->
            getTotalRaises(currentItems)
      [] OTHER -> FALSE

\* what currentItems, the array addItem read with get().items, shows when
\* addItem returns: [...currentItems] copies the array, not its lines, so
\* cantidad += 1 on the copy's line is seen through currentItems too
addItemCurrentItems(currentItems, product) ==
    LET existingItemIndex == findIndex(currentItems, product.id)
    IN  IF existingItemIndex >= 0
        THEN [currentItems EXCEPT ![existingItemIndex + 1].cantidad = @ + 1]
        ELSE currentItems

\* the same for removeItem: cantidad -= 1 is made on the shared line, the
\* splice on the copy only
removeItemCurrentItems(currentItems, productId) ==
    LET existingItemIndex == findIndex(currentItems, productId)
    IN  IF existingItemIndex >= 0
             /\ currentItems[existingItemIndex + 1].cantidad > 1
        THEN [currentItems EXCEPT ![existingItemIndex + 1].cantidad = @ - 1]
        ELSE currentItems

\* what the items array read before the call op(arg) shows after it;
\* deleteItem, clearCart and a reload build new arrays and write to no line
currentItemsAfter(op, currentItems, arg) ==
    CASE op = "addItem" -> addItemCurrentItems(currentItems, arg)
      [] op = "removeItem" -> removeItemCurrentItems(currentItems, arg.id)
      [] OTHER -> currentItems

Record(op, arg) ==
    /\ lastOp' = [op |-> op, arg |-> arg, threw |-> raises(op, items, arg)]
    /\ prev' = [items |-> items, isOpen |-> isOpen, storage |-> storage,
                order |-> IF op = "getOrderData" /\ lastOp.op = "getOrderData"
                          THEN ret ELSE undefined,
                held |-> currentItemsAfter(op, items, arg)]

\* a store call made on its own: no API call moves, and a checkout being
\* processed sees one more store call
Called(op, arg) ==
    /\ Record(op, arg)
    /\ UNCHANGED calls
    /\ checkout' = IF checkout.phase = "processing"
                   THEN [checkout EXCEPT !.interleaved = @ + 1]
                   ELSE checkout

----------------------------------------------------------------------------
(* The values the mutating actions hand to set({ items: ... }).            *)

\* addItem without the lookup: every call appends a line
addItemItems_AlwaysAppend(currentItems, product) ==
    Append(currentItems, [producto |-> product, cantidad |-> 1])

\* addItem whose existing-line branch sets the copy without incrementing
addItemItems_NoIncrement(currentItems, product) ==
    LET existingItemIndex == findIndex(currentItems, product.id)
    IN  IF existingItemIndex >= 0
        THEN currentItems
        ELSE Append(currentItems, [producto |-> product, cantidad |-> 1])

\* addItem whose existing-line branch also stores the product it was given
addItemItems_ReplacesProducto(currentItems, product) ==
    LET existingItemIndex == findIndex(currentItems, product.id)
    IN  IF existingItemIndex >= 0
        THEN [currentItems EXCEPT
                 ![existingItemIndex + 1] =
                     [producto |-> product, cantidad |-> @.cantidad + 1]]
        ELSE Append(currentItems, [producto |-> product, cantidad |-> 1])

\* addItem whose existing-line branch takes over the precio it was given
addItemItems_UpdatesPrecio(currentItems, product) ==
    LET existingItemIndex == findIndex(currentItems, product.id)
    IN  IF existingItemIndex >= 0
        THEN [currentItems EXCEPT
                 ![existingItemIndex + 1] =
                     [producto |-> [@.producto EXCEPT !.precio = product.precio],
                      cantidad |-> @.cantidad + 1]]
        ELSE Append(currentItems, [producto |-> product, cantidad |-> 1])

addItemItems(currentItems, product) ==
    LET existingItemIndex == findIndex(currentItems, product.id)
    IN  IF existingItemIndex >= 0
        THEN [currentItems EXCEPT ![existingItemIndex + 1].cantidad = @ + 1]
        ELSE Append(currentItems, [producto |-> product, cantidad |-> 1])

\* removeItem testing cantidad > 0 for cantidad > 1: a line of 0 stays
removeItemItems_DecrementToZero(currentItems, productId) ==
    LET existingItemIndex == findIndex(currentItems, productId)
    IN  IF existingItemIndex >= 0
        THEN IF currentItems[existingItemIndex + 1].cantidad > 0
             THEN [currentItems EXCEPT
                      ![existingItemIndex + 1].cantidad = @ - 1]
             ELSE splice(currentItems, existingItemIndex)
        ELSE currentItems

\* removeItem without the cantidad test: the line goes whatever it holds
removeItemItems_AlwaysSplice(currentItems, productId) ==
    LET existingItemIndex == findIndex(currentItems, productId)
    IN  IF existingItemIndex >= 0
        THEN splice(currentItems, existingItemIndex)
        ELSE currentItems

removeItemItems(currentItems, productId) ==
    LET existingItemIndex == findIndex(currentItems, productId)
    IN  IF existingItemIndex >= 0
        THEN IF currentItems[existingItemIndex + 1].cantidad > 1
             THEN [currentItems EXCEPT
                      ![existingItemIndex + 1].cantidad = @ - 1]
             ELSE splice(currentItems, existingItemIndex)
        ELSE currentItems

\* deleteItem taking one unit off, as removeItem does
deleteItemItems_RemovesOneUnit(currentItems, productId) ==
    removeItemItems(currentItems, productId)

deleteItemItems(currentItems, productId) == filter(currentItems, productId)

\* clearCart setting back the items it read
clearCartItems_KeepsItems == items

clearCartItems == <<>>

----------------------------------------------------------------------------
(* The readers.                                                            *)

\* items.reduce((total, item) => total + item.producto.precio * item.cantidad, 0)
RECURSIVE reduceTotal(_, _, _)
reduceTotal(arr, k, total) ==
    IF k > Len(arr) THEN total
    ELSE reduceTotal(arr, k + 1,
                     total + (arr[k].producto.precio * arr[k].cantidad))

\* getTotal summing precio without cantidad
RECURSIVE reduceTotal_IgnoresCantidad(_, _, _)
reduceTotal_IgnoresCantidad(arr, k, total) ==
    IF k > Len(arr) THEN total
    ELSE reduceTotal_IgnoresCantidad(arr, k + 1, total + arr[k].producto.precio)

getTotalValue_IgnoresCantidad(currentItems) ==
    reduceTotal_IgnoresCantidad(currentItems, 1, 0)

getTotalValue(currentItems) == reduceTotal(currentItems, 1, 0)

\* items.reduce((total, item) => total + item.cantidad, 0)
RECURSIVE reduceCantidad(_, _, _)
reduceCantidad(arr, k, total) ==
    IF k > Len(arr) THEN total
    ELSE reduceCantidad(arr, k + 1, total + arr[k].cantidad)

\* getTotalItems returning items.length
getTotalItemsValue_CountsLines(currentItems) == Len(currentItems)

getTotalItemsValue(currentItems) == reduceCantidad(currentItems, 1, 0)

\* the map callback leaving out the line's cantidad (one unit per entry)
mapProductos_OneUnit(currentItems) ==
    [k \in 1..Len(currentItems) |->
        [id       |-> currentItems[k].producto.id,
         nombre   |-> currentItems[k].producto.nombre,
         precio   |-> currentItems[k].producto.precio,
         cantidad |-> 1]]

\* items.map(item => ({id, nombre, precio, cantidad}))
mapProductos(currentItems) ==
    [k \in 1..Len(currentItems) |->
        [id       |-> currentItems[k].producto.id,
         nombre   |-> currentItems[k].producto.nombre,
         precio   |-> currentItems[k].producto.precio,
         cantidad |-> currentItems[k].cantidad]]

getOrderDataValue(currentItems, fecha) ==
    [type |-> "object", number |-> 0,
     productos |-> mapProductos(currentItems),
     total |-> getTotalValue(currentItems),
     fecha |-> fecha]

----------------------------------------------------------------------------
(* The persist middleware, configured with name 'cart-storage' and         *)
(* partialize: every set() is followed by setItem(), which stores          *)
(* { state: partialize(state), version } under the key; creating the store *)
(* merges the stored state over the initial one.                           *)

\* the state creator's initial values
initialState == [items |-> <<>>, isOpen |-> FALSE]

\* partialize keeping the whole state
partialize_WholeState(state) == state

\* partialize keeping the drawer flag instead of the items
partialize_IsOpen(state) == [isOpen |-> state.isOpen]

\* partialize: (state) => ({ items: state.items })
partialize(state) == [items |-> state.items]

\* what setItem() writes for the store state `state`
setItem(state) == <<[state |-> partialize(state), version |-> 0]>>

\* the middleware's default merge: { ...currentState, ...persistedState }
merge(persistedState, currentState) ==
    [k \in (DOMAIN currentState) \cup (DOMAIN persistedState) |->
        IF k \in DOMAIN persistedState THEN persistedState[k]
        ELSE currentState[k]]

\* the state a newly created store takes from the storage
hydrate(stored) ==
    IF stored = <<>> THEN initialState
    ELSE merge(stored[1].state, initialState)

\* the wrapped set(): the new state is saved
Persist == storage' = setItem([items |-> items', isOpen |-> isOpen'])

----------------------------------------------------------------------------
(* The API client: values.                                                 *)

API_BASE_URL == "http://localhost:3001"

defaultOptions == [headers |-> [h \in {"Content-Type"} |-> "application/json"]]

\* call slots: two calls can be in flight together
Slots == {1, 2}

Apis == {"productsAPI", "ordersAPI"}

EntityIds == 1..MaxEntityId

\* entities handed to create and update
Entities ==
    {[nombre |-> "PlayStation 5", precio |-> 75000],
     [nombre |-> "Xbox Series X", precio |-> 65000]}

\* an operation call: [api, method, id, body]; id is 0 and body <<>> where
\* the method takes none
NoOp == [api |-> "", method |-> "", id |-> 0, body |-> <<>>]

Ops ==
    {[api |-> a, method |-> "getAll", id |-> 0, body |-> <<>>] : a \in Apis}
    \cup {[api |-> a, method |-> "getById", id |-> i, body |-> <<>>] :
              a \in Apis, i \in EntityIds}
    \cup {[api |-> a, method |-> "create", id |-> 0, body |-> <<e>>] :
              a \in Apis, e \in Entities}
    \cup {[api |-> a, method |-> "update", id |-> i, body |-> <<e>>] :
              a \in Apis, i \in EntityIds, e \in Entities}
    \cup {[api |-> a, method |-> "delete", id |-> i, body |-> <<>>] :
              a \in Apis, i \in EntityIds}
    \cup {[api |-> "", method |-> "checkServerHealth", id |-> 0,
           body |-> <<>>]}

\* JSON.stringify(value): the text of a JSON document holding value
JSONstringify(value) == <<"json", value>>

\* texts a response body can hold: a JSON document, or nothing at all
EmptyText == <<"">>

ParseableTexts ==
    {JSONstringify(<<>>)} \cup {JSONstringify(<<e>>) : e \in Entities}

\* response.json() of a body text: the parsed value, or a SyntaxError
jsonParses(text) == Len(text) = 2 /\ text[1] = "json"

jsonValue(text) == text[2]

SyntaxError ==
    [name |-> "SyntaxError", message |-> <<"Unexpected end of JSON input">>]

\* what fetch can reject with
TransportErrors ==
    {[name |-> "TypeError", message |-> <<"Failed to fetch">>],
     [name |-> "Error", message |-> <<"Network error">>]}

Statuses == {200, 404, 500}

\* what fetch can resolve with; ok is whatever the transport says
Responses ==
    [ok : BOOLEAN, status : Statuses, body : ParseableTexts \cup {EmptyText}]

Pending == [kind |-> "pending", value |-> <<>>]

Resolved(value) == [kind |-> "resolved", value |-> <<value>>]

Rejected(error) == [kind |-> "rejected", value |-> <<error>>]

IdleCheckout ==
    [phase |-> "idle", orderData |-> <<>>, startItems |-> <<>>,
     cleared |-> FALSE, interleaved |-> 0]

IdleCall ==
    [pc |-> "idle", op |-> NoOp, fetches |-> <<>>, response |-> <<>>,
     failure |-> <<>>, jsonCalls |-> 0, logs |-> <<>>, settled |-> Pending]

----------------------------------------------------------------------------
(* The API client: the code of the operations.                             *)

\* the collection path of the two resource families
resource(api) == IF api = "productsAPI" THEN "/products" ELSE "/orders"

\* create and update of either family sent without the JSON headers
fetchArgs_NoHeaders(op) ==
    LET root == <<API_BASE_URL, resource(op.api)>>
        one == <<API_BASE_URL, resource(op.api), "/", op.id>>
    IN  CASE op.method = "getAll" -> [url |-> root, options |-> <<>>]
          [] op.method = "getById" -> [url |-> one, options |-> <<>>]
          [] op.method = "create" ->
                [url |-> root,
                 options |-> <<[method |-> "POST",
                                body |-> JSONstringify(op.body[1])]>>]
          [] op.method = "update" ->
                [url |-> one,
                 options |-> <<[method |-> "PUT",
                                body |-> JSONstringify(op.body[1])]>>]
          [] op.method = "delete" ->
                [url |-> one, options |-> <<[method |-> "DELETE"]>>]
          [] op.method = "checkServerHealth" ->
                [url |-> <<API_BASE_URL, "/products?_limit=1">>,
                 options |-> <<>>]

\* the arguments of the operation's fetch call: the url and, where the code
\* passes one, the options object
fetchArgs(op) ==
    LET root == <<API_BASE_URL, resource(op.api)>>
        one == <<API_BASE_URL, resource(op.api), "/", op.id>>
    IN  CASE op.method = "getAll" -> [url |-> root, options |-> <<>>]
          [] op.method = "getById" -> [url |-> one, options |-> <<>>]
          [] op.method = "create" ->
                [url |-> root,
                 options |-> <<[headers |-> defaultOptions.headers,
                                method |-> "POST",
                                body |-> JSONstringify(op.body[1])]>>]
          [] op.method = "update" ->
                [url |-> one,
                 options |-> <<[headers |-> defaultOptions.headers,
                                method |-> "PUT",
                                body |-> JSONstringify(op.body[1])]>>]
          [] op.method = "delete" ->
                [url |-> one, options |-> <<[method |-> "DELETE"]>>]
          [] op.method = "checkServerHealth" ->
                [url |-> <<API_BASE_URL, "/products?_limit=1">>,
                 options |-> <<>>]

\* every operation logging under the label of productsAPI.getAll
errorLabel_Shared(op) == <<"Error fetching products:">>

\* the first argument of the operation's console.error call
errorLabel(op) ==
    LET product == op.api = "productsAPI"
    IN  CASE op.method = "getAll" ->
                IF product THEN <<"Error fetching products:">>
                ELSE <<"Error fetching orders:">>
          [] op.method = "getById" ->
                IF product THEN <<"Error fetching product ", op.id, ":">>
                ELSE <<"Error fetching order ", op.id, ":">>
          [] op.method = "create" ->
                IF product THEN <<"Error creating product:">>
                ELSE <<"Error creating order:">>
          [] op.method = "update" ->
                IF product THEN <<"Error updating product ", op.id, ":">>
                ELSE <<"Error updating order ", op.id, ":">>
          [] op.method = "delete" ->
                IF product THEN <<"Error deleting product ", op.id, ":">>
                ELSE <<"Error deleting order ", op.id, ":">>
          [] op.method = "checkServerHealth" ->
                <<"Server health check failed:">>

\* new Error(`HTTP error! status: ${response.status}`)
HttpError(status) ==
    [name |-> "Error", message |-> <<"HTTP error! status: ", status>>]

\* handleResponse without the ok test: every body is parsed
handleResponse_NoOkTest(response) == [throws |-> FALSE, error |-> <<>>]

\* handleResponse reporting a fixed status
handleResponse_FixedStatus(response) ==
    IF ~response.ok
    THEN [throws |-> TRUE, error |-> <<HttpError(500)>>]
    ELSE [throws |-> FALSE, error |-> <<>>]

\* handleResponse up to its await: it throws on a response that is not ok,
\* else goes on to await response.json()
handleResponse(response) ==
    IF ~response.ok
    THEN [throws |-> TRUE, error |-> <<HttpError(response.status)>>]
    ELSE [throws |-> FALSE, error |-> <<>>]

\* the catch block losing the error it caught: a new Error is thrown
catch_WrapsError(call, error) ==
    [call EXCEPT
        !.pc = "settled",
        !.logs = Append(@, [label |-> errorLabel(call.op), error |-> error]),
        !.settled = Rejected([name |-> "Error",
                              message |-> <<"Request failed">>])]

\* the catch block without its throw: the call resolves with undefined
catch_Swallows(call, error) ==
    [call EXCEPT
        !.pc = "settled",
        !.logs = Append(@, [label |-> errorLabel(call.op), error |-> error]),
        !.settled = Resolved(<<>>)]

\* the catch block of a productsAPI / ordersAPI operation: console.error
\* with the operation's label, then throw error
catch(call, error) ==
    [call EXCEPT
        !.pc = "settled",
        !.logs = Append(@, [label |-> errorLabel(call.op), error |-> error]),
        !.settled = Rejected(error)]

\* the catch block of checkServerHealth: console.error, then return false
catchHealth(call, error) ==
    [call EXCEPT
        !.pc = "settled",
        !.logs = Append(@, [label |-> errorLabel(call.op), error |-> error]),
        !.settled = Resolved(FALSE)]

\* return await handleResponse(response) handing back something else than
\* the parsed body
returnParsed_Wrapped(call) ==
    [call EXCEPT
        !.pc = "settled",
        !.settled = Resolved([data |-> jsonValue(call.response[1].body)])]

\* return await handleResponse(response), response.json() having resolved
returnParsed(call) ==
    [call EXCEPT
        !.pc = "settled",
        !.settled = Resolved(jsonValue(call.response[1].body))]

\* checkServerHealth answering true whenever a response arrived
returnOk_AnyResponse(call) ==
    [call EXCEPT !.pc = "settled", !.settled = Resolved(TRUE)]

\* checkServerHealth: return response.ok
returnOk(call) ==
    [call EXCEPT !.pc = "settled", !.settled = Resolved(call.response[1].ok)]

----------------------------------------------------------------------------
(* Initial state and actions.                                              *)

\* Hydration either writes the record back or, in releases of the
\* middleware that write only after a migration, leaves the key unset.
Init ==
    /\ items = <<>>
    /\ isOpen = FALSE
    /\ lastOp = [op |-> "create", arg |-> NoArg, threw |-> FALSE]
    /\ ret = undefined
    /\ storage \in {<<>>, setItem(initialState)}
    /\ prev = [items |-> <<>>, isOpen |-> FALSE, storage |-> <<>>,
               order |-> undefined, held |-> <<>>]
    /\ addCalls = [i \in Ids |-> 0]
    /\ calls = [c \in Slots |-> IdleCall]
    /\ checkout = IdleCheckout

addItem(product) ==
    /\ getTotalItemsValue(items) < MaxUnits
    /\ items' = addItemItems(items, product)
    /\ addCalls' = [addCalls EXCEPT
                       ![product.id] = IF @ >= 0 THEN @ + 1 ELSE @]
    /\ ret' = undefined
    /\ Called("addItem", product)
    /\ UNCHANGED isOpen
    /\ Persist

removeItem(productId) ==
    /\ items' = removeItemItems(items, productId)
    /\ addCalls' = AfterRemoval(items')
    /\ ret' = undefined
    /\ Called("removeItem", IdArg(productId))
    /\ UNCHANGED isOpen
    /\ IF findIndex(items, productId) >= 0 THEN Persist
       ELSE UNCHANGED storage

deleteItem(productId) ==
    /\ items' = deleteItemItems(items, productId)
    /\ addCalls' = AfterRemoval(items')
    /\ ret' = undefined
    /\ Called("deleteItem", IdArg(productId))
    /\ UNCHANGED isOpen
    /\ Persist

\* clearCart also closing the drawer
clearCart_ClosesDrawer ==
    /\ items' = clearCartItems
    /\ isOpen' = FALSE
    /\ addCalls' = AfterRemoval(items')
    /\ ret' = undefined
    /\ Called("clearCart", NoArg)
    /\ Persist

clearCart ==
    /\ items' = clearCartItems
    /\ addCalls' = AfterRemoval(items')
    /\ ret' = undefined
    /\ Called("clearCart", NoArg)
    /\ UNCHANGED isOpen
    /\ Persist

getTotal ==
    /\ ret' = number(getTotalValue(items))
    /\ Called("getTotal", NoArg)
    /\ UNCHANGED <<items, isOpen, storage, addCalls>>

getTotalItems ==
    /\ ret' = number(getTotalItemsValue(items))
    /\ Called("getTotalItems", NoArg)
    /\ UNCHANGED <<items, isOpen, storage, addCalls>>

openCart ==
    /\ isOpen' = TRUE
    /\ ret' = undefined
    /\ Called("openCart", NoArg)
    /\ UNCHANGED <<items, addCalls>>
    /\ Persist

closeCart ==
    /\ isOpen' = FALSE
    /\ ret' = undefined
    /\ Called("closeCart", NoArg)
    /\ UNCHANGED <<items, addCalls>>
    /\ Persist

\* toggleCart opening the drawer whatever it was
toggleCart_AlwaysOpens ==
    /\ isOpen' = TRUE
    /\ ret' = undefined
    /\ Called("toggleCart", NoArg)
    /\ UNCHANGED <<items, addCalls>>
    /\ Persist

toggleCart ==
    /\ isOpen' = ~isOpen
    /\ ret' = undefined
    /\ Called("toggleCart", NoArg)
    /\ UNCHANGED <<items, addCalls>>
    /\ Persist

\* getOrderData handing the lines over: the cart is emptied by the call
getOrderData_TakesItems ==
    /\ \E fecha \in Fechas : ret' = getOrderDataValue(items, fecha)
    /\ items' = <<>>
    /\ UNCHANGED <<isOpen, addCalls>>
    /\ Called("getOrderData", NoArg)
    /\ Persist

getOrderData ==
    /\ \E fecha \in Fechas : ret' = getOrderDataValue(items, fecha)
    /\ Called("getOrderData", NoArg)
    /\ UNCHANGED <<items, isOpen, storage, addCalls>>

\* the page is reloaded: a new store is created over the same localStorage
rehydrate ==
    /\ items' = hydrate(storage).items
    /\ isOpen' = hydrate(storage).isOpen
    /\ storage' \in {storage, setItem(hydrate(storage))}
    /\ ret' = undefined
    /\ Called("rehydrate", NoArg)
    /\ UNCHANGED addCalls

Next ==
    \/ \E product \in Products : addItem(product)
    \/ \E productId \in ArgIds : removeItem(productId)
    \/ \E productId \in ArgIds : deleteItem(productId)
    \/ clearCart
    \/ getTotal
    \/ getTotalItems
    \/ openCart
    \/ closeCart
    \/ toggleCart
    \/ getOrderData
    \/ rehydrate

Spec == Init /\ [][Next]_vars

----------------------------------------------------------------------------
(* The API client: the steps of a call.                                    *)

storeVars == <<items, isOpen, lastOp, ret, prev, storage, addCalls>>

uiVars == <<storeVars, checkout>>

\* the operation is called: its async function runs up to await fetch(...)
invoke(c, op) ==
    /\ calls[c].pc = "idle"
    /\ calls' = [calls EXCEPT
                    ![c] = [@ EXCEPT !.pc = "awaitFetch",
                                     !.op = op,
                                     !.fetches = Append(@, fetchArgs(op))]]
    /\ UNCHANGED uiVars

\* fetch rejects: the catch block runs
fetchRejects(c, error) ==
    /\ calls[c].pc = "awaitFetch"
    /\ LET got == [calls[c] EXCEPT !.failure = <<error>>]
       IN  calls' = [calls EXCEPT
               ![c] = IF got.op.method = "checkServerHealth"
                      THEN catchHealth(got, error)
                      ELSE catch(got, error)]
    /\ UNCHANGED uiVars

\* the response kept in one place shared by the calls in flight: a call
\* handles the response another call received before it
fetchResolves_SharedResponse(c, response) ==
    /\ calls[c].pc = "awaitFetch"
    /\ LET others == {d \in Slots \ {c} : calls[d].response # <<>>}
           seen == IF others = {} THEN response
                   ELSE calls[CHOOSE d \in others : TRUE].response[1]
           got == [calls[c] EXCEPT !.response = <<response>>]
       IN  calls' = [calls EXCEPT
               ![c] = IF got.op.method = "checkServerHealth"
                      THEN returnOk(got)
                      ELSE IF handleResponse(seen).throws
                      THEN catch(got, handleResponse(seen).error[1])
                      ELSE [got EXCEPT !.pc = "awaitJson",
                                       !.jsonCalls = @ + 1]]
    /\ UNCHANGED uiVars

\* fetch resolves: checkServerHealth returns response.ok; the others run
\* handleResponse, which throws into the catch block or awaits
\* response.json()
fetchResolves(c, response) ==
    /\ calls[c].pc = "awaitFetch"
    /\ LET got == [calls[c] EXCEPT !.response = <<response>>]
       IN  calls' = [calls EXCEPT
               ![c] = IF got.op.method = "checkServerHealth"
                      THEN returnOk(got)
                      ELSE IF handleResponse(response).throws
                      THEN catch(got, handleResponse(response).error[1])
                      ELSE [got EXCEPT !.pc = "awaitJson",
                                       !.jsonCalls = @ + 1]]
    /\ UNCHANGED uiVars

\* response.json() resolves with the parsed body
jsonResolves(c) ==
    /\ calls[c].pc = "awaitJson"
    /\ jsonParses(calls[c].response[1].body)
    /\ calls' = [calls EXCEPT ![c] = returnParsed(@)]
    /\ UNCHANGED uiVars

\* a body that cannot be parsed taken for no body: the call resolves with
\* undefined and logs nothing
jsonRejects_ResolvesUndefined(c) ==
    /\ calls[c].pc = "awaitJson"
    /\ ~jsonParses(calls[c].response[1].body)
    /\ calls' = [calls EXCEPT
                    ![c] = [@ EXCEPT !.pc = "settled",
                                     !.settled = Resolved(<<>>)]]
    /\ UNCHANGED uiVars

\* response.json() rejects: the catch block runs
jsonRejects(c) ==
    /\ calls[c].pc = "awaitJson"
    /\ ~jsonParses(calls[c].response[1].body)
    /\ calls' = [calls EXCEPT ![c] = catch(@, SyntaxError)]
    /\ UNCHANGED uiVars

\* one call at a time, of any operation, against any transport behaviour
NextApi ==
    \/ \E op \in Ops : invoke(1, op)
    \/ \E error \in TransportErrors : fetchRejects(1, error)
    \/ \E response \in Responses : fetchResolves(1, response)
    \/ jsonResolves(1)
    \/ jsonRejects(1)

SpecApi == Init /\ [][NextApi]_vars

----------------------------------------------------------------------------
(* Two API calls in flight together.                                       *)

\* the operations of the example: a getAll and a create of either family
OverlapOps == {op \in Ops : op.method \in {"getAll", "create"}}

\* the answers of a server whose status agrees with ok and which sends a
\* body, possibly an empty one, with its successes only
OverlapResponses ==
    {r \in Responses :
        \/ r.ok /\ r.status = 200
        \/ ~r.ok /\ r.status # 200 /\ r.body = EmptyText}

\* the calls are issued back to back: slot c once the lower slots are
IssuedBefore(c) == \A d \in Slots : d < c => calls[d].pc # "idle"

\* each call proceeds when its own fetch or response.json() settles, in
\* whatever order the transport settles them
NextOverlap ==
    \/ \E c \in Slots, op \in OverlapOps : IssuedBefore(c) /\ invoke(c, op)
    \/ \E c \in Slots, error \in TransportErrors : fetchRejects(c, error)
    \/ \E c \in Slots, response \in OverlapResponses :
           fetchResolves(c, response)
    \/ \E c \in Slots : jsonResolves(c)
    \/ \E c \in Slots : jsonRejects(c)

SpecOverlap == Init /\ [][NextOverlap]_vars

----------------------------------------------------------------------------
(* The checkout of the Cart component.                                     *)

\* the slot of the checkout's ordersAPI.create call
CheckoutSlot == CHOOSE c \in Slots : \A d \in Slots : c <= d

\* one description per id, for the carts that are checked out
CheckoutProducts ==
    {p \in Products : (p.id % 2 = 1) <=> (p.nombre = "PlayStation 5")}

\* what the transport answers to the order: created, refused, or an ok
\* response with nothing in it
CheckoutResponses ==
    {r \in Responses :
        \/ r.ok /\ r.status = 200 /\ r.body # JSONstringify(<<>>)
        \/ ~r.ok /\ r.status = 500 /\ r.body = JSONstringify(<<>>)}

createOrder(order) ==
    [api |-> "ordersAPI", method |-> "create", id |-> 0, body |-> <<order>>]

\* "Finalizar Compra" is clicked on a cart with items: the order is read
\* from the store and sent
handleCheckout ==
    /\ checkout.phase \in {"idle", "error"}
    /\ items # <<>>
    /\ \E fecha \in Fechas : ret' = getOrderDataValue(items, fecha)
    /\ Record("handleCheckout", NoArg)
    /\ checkout' = [phase |-> "processing", orderData |-> <<ret'>>,
                    startItems |-> items, cleared |-> FALSE,
                    interleaved |-> 0]
    /\ calls' = [calls EXCEPT
                    ![CheckoutSlot] =
                        [IdleCall EXCEPT
                            !.pc = "awaitFetch",
                            !.op = createOrder(ret'),
                            !.fetches = <<fetchArgs(createOrder(ret'))>>]]
    /\ UNCHANGED <<items, isOpen, storage, addCalls>>

\* the order was created: the cart is cleared and the success message shown
checkoutSucceeded ==
    /\ checkout.phase = "processing"
    /\ calls[CheckoutSlot].settled.kind = "resolved"
    /\ items' = clearCartItems
    /\ addCalls' = AfterRemoval(items')
    /\ ret' = undefined
    /\ Record("checkoutSucceeded", NoArg)
    /\ UNCHANGED <<isOpen, calls>>
    /\ Persist
    /\ checkout' = [checkout EXCEPT !.phase = "success", !.cleared = TRUE]

\* the order was not created: the error message is shown, the cart is kept
checkoutFailed ==
    /\ checkout.phase = "processing"
    /\ calls[CheckoutSlot].settled.kind = "rejected"
    /\ ret' = undefined
    /\ Record("checkoutFailed", NoArg)
    /\ checkout' = [checkout EXCEPT !.phase = "error"]
    /\ UNCHANGED <<items, isOpen, storage, addCalls, calls>>

\* the message is dismissed; the settled call is forgotten
dismiss ==
    /\ checkout.phase \in {"success", "error"}
    /\ ret' = undefined
    /\ Record("dismiss", NoArg)
    /\ checkout' = IdleCheckout
    /\ calls' = [calls EXCEPT ![CheckoutSlot] = IdleCall]
    /\ UNCHANGED <<items, isOpen, storage, addCalls>>

\* the user can use the cart before a checkout and while one waits for the
\* server; the handler's continuation runs as soon as the call has settled
UserMay ==
    \/ checkout.phase = "idle"
    \/ /\ checkout.phase = "processing"
       /\ calls[CheckoutSlot].pc # "settled"
       /\ checkout.interleaved < MaxInterleaved

NextCheckout ==
    \/ \E product \in CheckoutProducts : UserMay /\ addItem(product)
    \/ \E productId \in Ids : UserMay /\ removeItem(productId)
    \/ handleCheckout
    \/ \E error \in TransportErrors : fetchRejects(CheckoutSlot, error)
    \/ \E response \in CheckoutResponses :
           fetchResolves(CheckoutSlot, response)
    \/ jsonResolves(CheckoutSlot)
    \/ jsonRejects(CheckoutSlot)
    \/ checkoutSucceeded
    \/ checkoutFailed
    \/ dismiss

SpecCheckout == Init /\ [][NextCheckout]_vars

----------------------------------------------------------------------------
(* Vocabulary of the properties.                                           *)

\* positions of the lines of `arr` whose product has this id
LinesOf(arr, productId) ==
    {k \in 1..Len(arr) : arr[k].producto.id = productId}

\* sum of f over the finite set S, f a function on S
RECURSIVE SumOver(_, _)
SumOver(S, f) ==
    IF S = {} THEN 0
    ELSE LET x == CHOOSE y \in S : TRUE
         IN  f[x] + SumOver(S \ {x}, f)

\* sum over the lines of precio * cantidad
SumPrecioCantidad(arr) ==
    SumOver(1..Len(arr),
            [k \in 1..Len(arr) |-> arr[k].producto.precio * arr[k].cantidad])

\* sum over the lines of cantidad
SumCantidad(arr) ==
    SumOver(1..Len(arr), [k \in 1..Len(arr) |-> arr[k].cantidad])

\* `after` is `before` without its line at position k
WithoutLine(before, k, after) ==
    /\ Len(after) = Len(before) - 1
    /\ \A j \in 1..Len(after) :
           after[j] = IF j < k THEN before[j] ELSE before[j + 1]

\* `after` is `before` with only the cantidad of line k changed, by d
CantidadChanged(before, k, d, after) ==
    /\ Len(after) = Len(before)
    /\ \A j \in 1..Len(before) :
           IF j = k
           THEN /\ after[j].producto = before[j].producto
                /\ after[j].cantidad = before[j].cantidad + d
           ELSE after[j] = before[j]

----------------------------------------------------------------------------
(* Properties.                                                             *)

\* C1: in every state reachable from the empty cart by the store's
\* operations, no two lines of items carry the same product id.
C1_UniqueProductIds ==
    \A j, k \in 1..Len(items) :
        items[j].producto.id = items[k].producto.id => j = k

\* an addItem for a product already in a cart of two lines has run
C1_Witness ==
    /\ lastOp.op = "addItem"
    /\ LinesOf(prev.items, lastOp.arg.id) # {}
    /\ Len(items) = 2

\* C2: in every reachable state every line has an integer cantidad >= 1.
C2_PositiveCantidad ==
    \A k \in 1..Len(items) :
        items[k].cantidad \in Nat /\ items[k].cantidad >= 1

\* removeItem has run on a line with cantidad 1 and another line is left
C2_Witness ==
    /\ lastOp.op = "removeItem"
    /\ \E k \in LinesOf(prev.items, lastOp.arg.id) :
           prev.items[k].cantidad = 1
    /\ Len(items) = 1

\* C3: getTotal() returns the sum over the lines of stored precio times
\* cantidad, 0 for the empty cart, and changes neither items nor isOpen.
C3_GetTotalIsSum ==
    lastOp.op = "getTotal" =>
        /\ ret = number(SumPrecioCantidad(items))
        /\ (items = <<>> => ret.number = 0)
        /\ items = prev.items
        /\ isOpen = prev.isOpen

\* getTotal on the cart of the end-to-end scenario: two of the product
\* priced 75000 and one of the product priced 65000
C3_Witness ==
    /\ lastOp.op = "getTotal"
    /\ Len(items) = 2
    /\ items[1].producto.precio = 75000 /\ items[1].cantidad = 2
    /\ items[2].producto.precio = 65000 /\ items[2].cantidad = 1
    /\ ret.number = 215000

\* C4: after n >= 1 addItem calls for id X that started from a cart with no
\* line for X, with addItem calls for other ids interleaved and no
\* removeItem, deleteItem or clearCart in between, items has exactly one
\* line for X and its cantidad is n.
C4_CantidadCountsAddCalls ==
    \A i \in Ids :
        addCalls[i] >= 1 =>
            /\ Cardinality(LinesOf(items, i)) = 1
            /\ \A k \in LinesOf(items, i) : items[k].cantidad = addCalls[i]

\* three addItem calls for one id interleaved with one for another id
C4_Witness ==
    \E i, j \in Ids :
        /\ i # j
        /\ addCalls[i] = 3
        /\ addCalls[j] = 1
        /\ findIndex(items, j) > findIndex(items, i)
        /\ lastOp.op = "addItem" /\ lastOp.arg.id = i

\* C5: addItem(product) either increases by exactly 1 the cantidad of the
\* existing line for product.id, leaving the number of lines, their order
\* and every other line unchanged, or, when no line has that id, appends
\* the line {product, 1} at the end and leaves the existing lines as they
\* were.
C5_AddItemEffect ==
    lastOp.op = "addItem" =>
        LET product == lastOp.arg
            before == prev.items
        IN  IF LinesOf(before, product.id) # {}
            THEN \E k \in LinesOf(before, product.id) :
                     CantidadChanged(before, k, 1, items)
            ELSE /\ Len(items) = Len(before) + 1
                 /\ SubSeq(items, 1, Len(before)) = before
                 /\ items[Len(items)] = [producto |-> product, cantidad |-> 1]

\* addItem has run for the first of two lines, with a product description
\* that is not the stored one
C5_Witness ==
    /\ lastOp.op = "addItem"
    /\ Len(prev.items) = 2
    /\ prev.items[1].producto.id = lastOp.arg.id
    /\ prev.items[1].producto # lastOp.arg

\* C6: removeItem(id) decreases by exactly 1 the cantidad of the line for
\* id when it is above 1, the line keeping its position; removes the line
\* when its cantidad is 1, the other lines keeping content and order; and
\* leaves items and isOpen unchanged when no line has that id.
C6_RemoveItemEffect ==
    lastOp.op = "removeItem" =>
        LET productId == lastOp.arg.id
            before == prev.items
        IN  /\ isOpen = prev.isOpen
            /\ IF LinesOf(before, productId) = {}
               THEN items = before
               ELSE \E k \in LinesOf(before, productId) :
                        IF before[k].cantidad > 1
                        THEN CantidadChanged(before, k, -1, items)
                        ELSE WithoutLine(before, k, items)

\* removeItem has removed the first of two lines
C6_Witness ==
    /\ lastOp.op = "removeItem"
    /\ Len(prev.items) = 2
    /\ prev.items[1].producto.id = lastOp.arg.id
    /\ prev.items[1].cantidad = 1
    /\ items = <<prev.items[2]>>

\* C7: deleteItem(id) removes the line for id whatever its cantidad, the
\* other lines keeping content and order; with no line for id the items
\* sequence equals the previous one.
C7_DeleteItemEffect ==
    lastOp.op = "deleteItem" =>
        LET productId == lastOp.arg.id
            before == prev.items
        IN  IF LinesOf(before, productId) = {}
            THEN items = before
            ELSE \E k \in LinesOf(before, productId) :
                     WithoutLine(before, k, items)

\* deleteItem has removed the first of two lines, whose cantidad was 3
C7_Witness ==
    /\ lastOp.op = "deleteItem"
    /\ Len(prev.items) = 2
    /\ prev.items[1].producto.id = lastOp.arg.id
    /\ prev.items[1].cantidad = 3
    /\ items = <<prev.items[2]>>

\* C8: clearCart() yields items = the empty sequence, and a getTotal() or
\* getTotalItems() called immediately afterwards returns 0.
C8_ClearCartEmpties ==
    /\ [](lastOp.op = "clearCart" => items = <<>>)
    /\ [][(lastOp.op = "clearCart"
             /\ lastOp'.op \in {"getTotal", "getTotalItems"})
          => ret' = number(0)]_vars

\* clearCart has run on a cart of two lines
C8_Witness ==
    /\ lastOp.op = "clearCart"
    /\ Len(prev.items) = 2
    /\ items = <<>>

\* C9: getTotalItems() returns the sum of the cantidad of all lines (units,
\* not distinct products), 0 for the empty cart, and changes neither items
\* nor isOpen.
C9_GetTotalItemsIsSum ==
    lastOp.op = "getTotalItems" =>
        /\ ret = number(SumCantidad(items))
        /\ (items = <<>> => ret.number = 0)
        /\ items = prev.items
        /\ isOpen = prev.isOpen

\* getTotalItems on two lines holding three units
C9_Witness ==
    /\ lastOp.op = "getTotalItems"
    /\ Len(items) = 2
    /\ items[1].cantidad = 2
    /\ items[2].cantidad = 1
    /\ ret.number = 3

\* C10: getOrderData() returns productos with one entry per line, in the
\* order of items, each carrying the line's product id, nombre, precio and
\* its cantidad, and total equal to getTotal() in the same state; for the
\* empty cart productos is empty and total is 0.
C10_OrderDataMirrorsItems ==
    lastOp.op = "getOrderData" =>
        /\ Len(ret.productos) = Len(items)
        /\ \A k \in 1..Len(items) :
               /\ ret.productos[k].id = items[k].producto.id
               /\ ret.productos[k].nombre = items[k].producto.nombre
               /\ ret.productos[k].precio = items[k].producto.precio
               /\ ret.productos[k].cantidad = items[k].cantidad
        /\ ret.total = getTotalValue(items)
        /\ ret.total = SumPrecioCantidad(items)
        /\ (items = <<>> => ret.productos = <<>> /\ ret.total = 0)

\* getOrderData on the cart of the end-to-end scenario
C10_Witness ==
    /\ lastOp.op = "getOrderData"
    /\ Len(ret.productos) = 2
    /\ ret.productos[1].id # ret.productos[2].id
    /\ ret.productos[1].nombre # ret.productos[2].nombre
    /\ ret.productos[1].cantidad = 2
    /\ ret.productos[2].cantidad = 1
    /\ ret.total = 215000

\* the items of the record under cart-storage, <<>> when there is none
PersistedItems(stored) ==
    IF stored # <<>> /\ "items" \in DOMAIN stored[1].state
    THEN stored[1].state.items ELSE <<>>

\* C11: getOrderData() never changes the cart state, and two consecutive
\* getOrderData() calls with no mutation in between return equal productos
\* and equal total (fecha may differ).
C11_GetOrderDataIsPure ==
    lastOp.op = "getOrderData" =>
        /\ items = prev.items
        /\ isOpen = prev.isOpen
        /\ prev.order.type = "object" =>
               /\ ret.productos = prev.order.productos
               /\ ret.total = prev.order.total

\* a second getOrderData right after a first one, at another instant, on a
\* cart of two lines
C11_Witness ==
    /\ lastOp.op = "getOrderData"
    /\ prev.order.type = "object"
    /\ prev.order.fecha # ret.fecha
    /\ Len(ret.productos) = 2
    /\ isOpen

\* C12: a store re-created from the persisted record has the items held
\* just before the restart and isOpen = false, whatever isOpen was.
C12_RehydrateRestoresItemsOnly ==
    lastOp.op = "rehydrate" =>
        /\ items = prev.items
        /\ isOpen = FALSE

\* a restart of a store whose drawer was open over a cart of two lines
C12_Witness ==
    /\ lastOp.op = "rehydrate"
    /\ prev.isOpen
    /\ Len(prev.items) = 2
    /\ items = prev.items
    /\ ~isOpen

\* C13: after every addItem, removeItem, deleteItem or clearCart that
\* changes items the record under cart-storage holds exactly the current
\* items; the record never holds anything but items; openCart, closeCart
\* and toggleCart leave the persisted items unchanged.
C13_PersistedItemsFollowItems ==
    /\ (lastOp.op \in {"addItem", "removeItem", "deleteItem", "clearCart"}
            /\ items # prev.items)
           => /\ storage # <<>>
              /\ "items" \in DOMAIN storage[1].state
              /\ storage[1].state.items = items
    /\ storage # <<>> => DOMAIN storage[1].state = {"items"}
    /\ lastOp.op \in {"openCart", "closeCart", "toggleCart"}
           => /\ PersistedItems(storage) = PersistedItems(prev.storage)
              /\ prev.storage # <<>> => storage = prev.storage

\* toggleCart has opened the drawer over a saved cart of two lines
C13_Witness ==
    /\ lastOp.op = "toggleCart"
    /\ isOpen
    /\ Len(items) = 2
    /\ storage # <<>>
    /\ storage[1].state.items = items
    /\ storage = prev.storage

\* C21: openCart() sets isOpen to true and closeCart() sets it to false
\* whatever it was, toggleCart() sets isOpen to the negation of its prior
\* value, and two consecutive toggleCart() calls restore the original
\* isOpen.
C21_DrawerControls ==
    /\ [](/\ lastOp.op = "openCart" => isOpen
          /\ lastOp.op = "closeCart" => ~isOpen
          /\ lastOp.op = "toggleCart" => isOpen = ~prev.isOpen)
    /\ [][(lastOp.op = "toggleCart" /\ lastOp'.op = "toggleCart")
             => isOpen' = prev.isOpen]_vars

\* toggleCart has closed a drawer that was open, over a cart of one line
C21_Witness ==
    /\ lastOp.op = "toggleCart"
    /\ prev.isOpen
    /\ ~isOpen
    /\ Len(items) = 1

\* C22: isOpen and items are independent: addItem, removeItem, deleteItem,
\* clearCart, getTotal, getTotalItems and getOrderData leave isOpen
\* unchanged, and openCart, closeCart and toggleCart leave items unchanged.
C22_DrawerAndItemsIndependent ==
    /\ lastOp.op \in {"addItem", "removeItem", "deleteItem", "clearCart",
                      "getTotal", "getTotalItems", "getOrderData"}
           => isOpen = prev.isOpen
    /\ lastOp.op \in {"openCart", "closeCart", "toggleCart"}
           => items = prev.items

\* clearCart has emptied a cart of two lines under an open drawer
C22_Witness ==
    /\ lastOp.op = "clearCart"
    /\ Len(prev.items) = 2
    /\ prev.isOpen
    /\ isOpen
    /\ items = <<>>

\* C23: in every state reachable from the empty cart, addItem being called
\* with products that carry an id, no store operation raises an error; in
\* particular removeItem and deleteItem called with an id that has no line
\* complete without error (and leave the items as they were).
C23_NoStoreCallRaises ==
    /\ ~lastOp.threw
    /\ (lastOp.op \in {"removeItem", "deleteItem"}
            /\ LinesOf(prev.items, lastOp.arg.id) = {})
           => ~lastOp.threw /\ items = prev.items

\* removeItem has run for an id that has no line, on a cart of two lines
C23_Witness ==
    /\ lastOp.op = "removeItem"
    /\ lastOp.arg.id = AbsentId
    /\ Len(prev.items) = 2
    /\ ~lastOp.threw
    /\ items = prev.items

\* C24: addItem for a product already in the cart, and removeItem for a
\* line with cantidad > 1, update the state immutably: the items sequence
\* obtained from the store before the call still shows the old quantities
\* after the call, and only the newly set items show the changed one.
C24_UpdatesAreImmutable ==
    lastOp.op \in {"addItem", "removeItem"} =>
        /\ prev.held = prev.items
        /\ \A k \in LinesOf(prev.items, lastOp.arg.id) :
               (lastOp.op = "addItem" \/ prev.items[k].cantidad > 1)
                   => items[k].cantidad # prev.held[k].cantidad

\* C27: addItem(product) immediately followed by removeItem(product.id)
\* restores items exactly (same lines, quantities and order), whether or
\* not the product was in the cart before; removeItem(id) immediately
\* followed by addItem of a product with that id restores items whenever
\* the line had cantidad > 1.
C27_AddThenRemoveRestores ==
    [][/\ (/\ lastOp.op = "addItem"
           /\ lastOp'.op = "removeItem"
           /\ lastOp'.arg.id = lastOp.arg.id) => items' = prev.items
       /\ (/\ lastOp.op = "removeItem"
           /\ \E k \in LinesOf(prev.items, lastOp.arg.id) :
                  prev.items[k].cantidad > 1
           /\ lastOp'.op = "addItem"
           /\ lastOp'.arg.id = lastOp.arg.id) => items' = prev.items]_vars

\* removeItem has taken back the unit an addItem puts on the first of two
\* lines, which holds two units again
C27_Witness ==
    /\ lastOp.op = "removeItem"
    /\ Len(items) = 2
    /\ items[1].producto.id = lastOp.arg.id
    /\ items[1].cantidad = 2
    /\ \E product \in Products :
           /\ product.id = lastOp.arg.id
           /\ prev.items = addItemItems(items, product)

\* C28: when addItem is called with a product whose id matches a line but
\* whose nombre or precio differ from the stored product, only the
\* cantidad changes: the line keeps the product stored at first insertion,
\* and getTotal() and getOrderData() keep using the stored precio and
\* nombre, not those of the later call.
C28_StoredProductIsKept ==
    /\ [](lastOp.op = "addItem" =>
             \A k \in LinesOf(prev.items, lastOp.arg.id) :
                 /\ Len(items) = Len(prev.items)
                 /\ items[k].producto = prev.items[k].producto
                 /\ items[k].cantidad = prev.items[k].cantidad + 1)
    /\ [][lastOp.op = "addItem" =>
             \A k \in LinesOf(prev.items, lastOp.arg.id) :
                 LET stored == prev.items[k].producto
                     total == SumPrecioCantidad(prev.items) + stored.precio
                 IN  /\ lastOp'.op = "getTotal" => ret' = number(total)
                     /\ lastOp'.op = "getOrderData" =>
                            /\ ret'.total = total
                            /\ ret'.productos[k] =
                                   [id |-> stored.id,
                                    nombre |-> stored.nombre,
                                    precio |-> stored.precio,
                                    cantidad |-> prev.items[k].cantidad + 1]]_vars

\* addItem has run for the second of two lines with another nombre and
\* another precio than the stored ones
C28_Witness ==
    /\ lastOp.op = "addItem"
    /\ Len(items) = 2
    /\ items[2].producto.id = lastOp.arg.id
    /\ items[2].producto.nombre # lastOp.arg.nombre
    /\ items[2].producto.precio # lastOp.arg.precio
    /\ items[2].cantidad = 2

\* removeItem(productId) applied n times to arr
RECURSIVE RemoveTimes(_, _, _)
RemoveTimes(arr, productId, n) ==
    IF n = 0 THEN arr
    ELSE RemoveTimes(removeItemItems(arr, productId), productId, n - 1)

\* C29: for every id with a line of cantidad q, deleteItem(id) yields the
\* same items as applying removeItem(id) q times; deleteItem and clearCart
\* are idempotent: applying either twice gives the items of applying it
\* once.
C29_DeleteIsRepeatedRemove ==
    /\ [](lastOp.op = "deleteItem" =>
             \A k \in LinesOf(prev.items, lastOp.arg.id) :
                 items = RemoveTimes(prev.items, lastOp.arg.id,
                                     prev.items[k].cantidad))
    /\ [][(lastOp.op = "deleteItem" /\ lastOp' = lastOp)
             => items' = items]_vars
    /\ [][(lastOp.op = "clearCart" /\ lastOp'.op = "clearCart")
             => items' = items]_vars

\* deleteItem has removed the second of two lines, which held three units
C29_Witness ==
    /\ lastOp.op = "deleteItem"
    /\ Len(prev.items) = 2
    /\ prev.items[2].producto.id = lastOp.arg.id
    /\ prev.items[2].cantidad = 3
    /\ items = <<prev.items[1]>>

----------------------------------------------------------------------------
(* Properties of the API client, under SpecApi.                            *)

\* the calls of productsAPI and ordersAPI operations that have started
ResourceCalls ==
    {c \in Slots : calls[c].pc # "idle" /\ calls[c].op.api \in Apis}

\* the label the operation logs under, as its documentation words it
OwnLabel(op) ==
    LET noun == IF op.api = "productsAPI" THEN "product" ELSE "order"
        plural == IF op.api = "productsAPI" THEN "products" ELSE "orders"
        verb == [m \in {"getAll", "getById", "create", "update", "delete"} |->
                    CASE m \in {"getAll", "getById"} -> "fetching"
                      [] m = "create" -> "creating"
                      [] m = "update" -> "updating"
                      [] m = "delete" -> "deleting"]
        text(v, n) ==
            CASE v = "fetching" /\ n = "products" -> "Error fetching products:"
              [] v = "fetching" /\ n = "orders" -> "Error fetching orders:"
              [] v = "fetching" /\ n = "product" -> "Error fetching product "
              [] v = "fetching" /\ n = "order" -> "Error fetching order "
              [] v = "creating" /\ n = "product" -> "Error creating product:"
              [] v = "creating" /\ n = "order" -> "Error creating order:"
              [] v = "updating" /\ n = "product" -> "Error updating product "
              [] v = "updating" /\ n = "order" -> "Error updating order "
              [] v = "deleting" /\ n = "product" -> "Error deleting product "
              [] v = "deleting" /\ n = "order" -> "Error deleting order "
    IN  IF op.method = "getAll" THEN <<text(verb[op.method], plural)>>
        ELSE IF op.method = "create" THEN <<text(verb[op.method], noun)>>
        ELSE <<text(verb[op.method], noun), op.id, ":">>

\* C14: when the transport rejects with error E, the operation's promise
\* rejects with that same E and console.error is called exactly once for
\* the call, with the operation's own label.
C14_TransportErrorPropagates ==
    \A c \in ResourceCalls :
        calls[c].failure # <<>> =>
            /\ calls[c].pc = "settled"
            /\ calls[c].settled = Rejected(calls[c].failure[1])
            /\ Len(calls[c].logs) = 1
            /\ calls[c].logs[1].label = OwnLabel(calls[c].op)
            /\ calls[c].logs[1].error = calls[c].failure[1]

\* ordersAPI.update(2, ...) has been rejected by the transport
C14_Witness ==
    /\ 1 \in ResourceCalls
    /\ calls[1].op.api = "ordersAPI"
    /\ calls[1].op.method = "update"
    /\ calls[1].op.id = 2
    /\ calls[1].failure # <<>>
    /\ calls[1].settled.kind = "rejected"
    /\ calls[1].logs[1].label = <<"Error updating order ", 2, ":">>

\* C15: when the transport resolves with a response that is not ok and has
\* status c, the operation rejects with an error whose message is
\* 'HTTP error! status: c', the body is never parsed, and the failure is
\* logged exactly once.
C15_HttpErrorRejects ==
    \A c \in ResourceCalls :
        (calls[c].response # <<>> /\ ~calls[c].response[1].ok) =>
            /\ calls[c].pc = "settled"
            /\ calls[c].settled.kind = "rejected"
            /\ calls[c].settled.value[1].message =
                   <<"HTTP error! status: ", calls[c].response[1].status>>
            /\ calls[c].jsonCalls = 0
            /\ Len(calls[c].logs) = 1
            /\ calls[c].logs[1].label = OwnLabel(calls[c].op)
            /\ calls[c].logs[1].error = calls[c].settled.value[1]

\* ordersAPI.create has met a response that is not ok, with status 404
C15_Witness ==
    /\ 1 \in ResourceCalls
    /\ calls[1].op.api = "ordersAPI"
    /\ calls[1].op.method = "create"
    /\ calls[1].response # <<>>
    /\ ~calls[1].response[1].ok
    /\ calls[1].response[1].status = 404
    /\ calls[1].settled.kind = "rejected"

\* C16: when the transport resolves with an ok response whose parsed body
\* is B, the operation resolves to exactly B, with no logging and no error.
C16_OkResolvesWithBody ==
    \A c \in ResourceCalls :
        (/\ calls[c].pc = "settled"
         /\ calls[c].response # <<>>
         /\ calls[c].response[1].ok
         /\ calls[c].response[1].body \in ParseableTexts) =>
            /\ calls[c].settled.kind = "resolved"
            /\ \E B \in {<<>>} \cup {<<e>> : e \in Entities} :
                   /\ calls[c].response[1].body = JSONstringify(B)
                   /\ calls[c].settled.value = <<B>>
            /\ calls[c].logs = <<>>

\* productsAPI.getById has resolved with the one entity of the body
C16_Witness ==
    /\ 1 \in ResourceCalls
    /\ calls[1].op.api = "productsAPI"
    /\ calls[1].op.method = "getById"
    /\ calls[1].pc = "settled"
    /\ calls[1].response # <<>>
    /\ calls[1].response[1].ok
    /\ calls[1].settled.kind = "resolved"
    /\ Len(calls[1].settled.value[1]) = 1

\* C17: checkServerHealth() issues one GET to
\* http://localhost:3001/products?_limit=1 and never rejects: it resolves
\* to true exactly when the transport resolves with an ok response, and to
\* false when the transport rejects or the response is not ok.
C17_HealthNeverRejects ==
    \A c \in Slots :
        calls[c].op.method = "checkServerHealth" =>
            /\ calls[c].fetches =
                   <<[url |-> <<"http://localhost:3001", "/products?_limit=1">>,
                      options |-> <<>>]>>
            /\ calls[c].settled.kind # "rejected"
            /\ calls[c].pc \in {"awaitFetch", "settled"}
            /\ calls[c].pc = "settled" =>
                   calls[c].settled =
                       Resolved(/\ calls[c].response # <<>>
                                /\ calls[c].response[1].ok)

\* checkServerHealth has answered false to a response that is not ok
C17_Witness ==
    /\ calls[1].op.method = "checkServerHealth"
    /\ calls[1].pc = "settled"
    /\ calls[1].response # <<>>
    /\ ~calls[1].response[1].ok
    /\ calls[1].settled = Resolved(FALSE)

\* the request the interface table gives for an operation
TableRequest(op) ==
    LET base == "http://localhost:3001"
        R == IF op.api = "productsAPI" THEN "/products" ELSE "/orders"
        json == [h \in {"Content-Type"} |-> "application/json"]
        withId == op.method \in {"getById", "update", "delete"}
        url == IF withId THEN <<base, R, "/", op.id>> ELSE <<base, R>>
    IN  IF op.method \in {"getAll", "getById"}
        THEN [url |-> url, options |-> <<>>]
        ELSE IF op.method = "delete"
        THEN [url |-> url, options |-> <<[method |-> "DELETE"]>>]
        ELSE [url |-> url,
              options |->
                  <<[method |-> IF op.method = "create" THEN "POST" ELSE "PUT",
                     headers |-> json,
                     body |-> <<"json", op.body[1]>>]>>]

\* C18: every call of an API operation of either family issues exactly one
\* transport request, on success and on failure alike: getAll GET base/R
\* and getById GET base/R/id with no options, create POST base/R and update
\* PUT base/R/id with the Content-Type: application/json header and the
\* JSON of the entity as body, delete DELETE base/R/id with no headers and
\* no body; base is http://localhost:3001.
C18_OneRequestPerCall ==
    \A c \in ResourceCalls :
        /\ Len(calls[c].fetches) = 1
        /\ calls[c].fetches[1] = TableRequest(calls[c].op)

\* productsAPI.update(2, ...) has failed after its one PUT request
C18_Witness ==
    /\ 1 \in ResourceCalls
    /\ calls[1].op.api = "productsAPI"
    /\ calls[1].op.method = "update"
    /\ calls[1].op.id = 2
    /\ calls[1].settled.kind = "rejected"
    /\ Len(calls[1].fetches) = 1
    /\ calls[1].fetches[1].options[1].method = "PUT"

\* C30: for every operation of productsAPI and ordersAPI, when the
\* response is ok but parsing its body fails (an empty body returned for a
\* delete, say), the operation does not resolve: it rejects with the parse
\* error, after logging exactly once with the operation's label.
C30_ParseFailureRejects ==
    \A c \in ResourceCalls :
        (/\ calls[c].response # <<>>
         /\ calls[c].response[1].ok
         /\ calls[c].response[1].body \notin ParseableTexts) =>
            /\ calls[c].settled.kind # "resolved"
            /\ calls[c].jsonCalls = 1
            /\ IF calls[c].pc = "settled"
               THEN /\ calls[c].settled = Rejected(SyntaxError)
                    /\ calls[c].logs = <<[label |-> OwnLabel(calls[c].op),
                                          error |-> SyntaxError]>>
               ELSE /\ calls[c].pc = "awaitJson"
                    /\ calls[c].logs = <<>>

\* productsAPI.delete(1) has been rejected on an ok response with an empty
\* body
C30_Witness ==
    /\ 1 \in ResourceCalls
    /\ calls[1].op.api = "productsAPI"
    /\ calls[1].op.method = "delete"
    /\ calls[1].op.id = 1
    /\ calls[1].response # <<>>
    /\ calls[1].response[1].ok
    /\ calls[1].response[1].body = EmptyText
    /\ calls[1].settled = Rejected(SyntaxError)
    /\ calls[1].logs[1].label = <<"Error deleting product ", 1, ":">>

----------------------------------------------------------------------------
(* Properties of overlapping API calls, under SpecOverlap.                 *)

\* how a call settles, told from what the transport gave this call alone
OwnOutcome(call) ==
    IF call.failure # <<>> THEN Rejected(call.failure[1])
    ELSE IF ~call.response[1].ok
    THEN Rejected([name |-> "Error",
                   message |-> <<"HTTP error! status: ",
                                 call.response[1].status>>])
    ELSE IF call.response[1].body \in ParseableTexts
    THEN Resolved(call.response[1].body[2])
    ELSE Rejected(SyntaxError)

\* C25: when two API operations are in flight together their responses may
\* arrive in either order, and in each order every call settles with the
\* outcome its own response determines: the body, status or transport
\* error of one call never shows in the result or the log label of the
\* other, and a settled call is not touched by the other's completion.
C25_OverlappingCallsAreIndependent ==
    /\ [](\A c \in ResourceCalls :
             /\ calls[c].pc = "settled" =>
                    /\ calls[c].settled = OwnOutcome(calls[c])
                    /\ calls[c].settled.kind = "resolved" => calls[c].logs = <<>>
                    /\ calls[c].settled.kind = "rejected" =>
                           calls[c].logs =
                               <<[label |-> OwnLabel(calls[c].op),
                                  error |-> OwnOutcome(calls[c]).value[1]]>>
             /\ calls[c].pc # "settled" =>
                    calls[c].settled = Pending /\ calls[c].logs = <<>>)
    /\ [][\A c \in Slots :
             calls[c].pc = "settled" => calls'[c] = calls[c]]_vars

\* the call issued second has resolved with its body while the one issued
\* first still waits for its response
C25_Witness ==
    /\ calls[1].pc = "awaitFetch"
    /\ calls[1].op.method = "getAll"
    /\ calls[2].pc = "settled"
    /\ calls[2].op.method = "create"
    /\ calls[2].settled.kind = "resolved"
    /\ calls[2].settled.value = <<calls[2].op.body>>

\* the call issued first has been refused while the one issued second still
\* waits for its response
C25_InOrder ==
    /\ calls[1].pc = "settled"
    /\ calls[1].settled.kind = "rejected"
    /\ calls[2].pc = "awaitFetch"

\* both calls have settled, each on its own answer: one refused with
\* status 404, the other resolved with its body
C25_BothSettled ==
    /\ calls[1].pc = "settled"
    /\ calls[1].settled = Rejected(HttpError(404))
    /\ calls[2].pc = "settled"
    /\ calls[2].settled.kind = "resolved"
    /\ calls[2].logs = <<>>

----------------------------------------------------------------------------
(* Properties of the checkout, under SpecCheckout.                         *)

\* the checkout's create call was answered by an ok response whose body
\* could be parsed
OrderCreated ==
    /\ calls[CheckoutSlot].pc = "settled"
    /\ calls[CheckoutSlot].response # <<>>
    /\ calls[CheckoutSlot].response[1].ok
    /\ calls[CheckoutSlot].response[1].body \in ParseableTexts

\* the checkout's create call met a transport rejection or a response that
\* is not ok
OrderRefused ==
    \/ calls[CheckoutSlot].failure # <<>>
    \/ /\ calls[CheckoutSlot].response # <<>>
       /\ ~calls[CheckoutSlot].response[1].ok

\* C19: in the checkout, ordersAPI.create is called with the payload
\* getOrderData() returned when the checkout started, and clearCart is
\* invoked only after that call has resolved successfully, never before
\* it completes and never without a successful create.
C19_ClearOnlyAfterCreate ==
    /\ checkout.phase # "idle" =>
           LET call == calls[CheckoutSlot]
               order == checkout.orderData[1]
           IN  /\ call.op.api = "ordersAPI"
               /\ call.op.method = "create"
               /\ call.op.body = <<order>>
               /\ call.fetches[1].options[1].body = <<"json", order>>
               /\ Len(order.productos) = Len(checkout.startItems)
               /\ \A k \in 1..Len(order.productos) :
                      /\ order.productos[k].id
                             = checkout.startItems[k].producto.id
                      /\ order.productos[k].cantidad
                             = checkout.startItems[k].cantidad
               /\ order.total = SumPrecioCantidad(checkout.startItems)
    /\ checkout.cleared =>
           /\ OrderCreated
           /\ calls[CheckoutSlot].settled.kind = "resolved"
           /\ checkout.phase = "success"
    /\ lastOp.op = "checkoutSucceeded" => checkout.cleared /\ items = <<>>

\* the cart of two lines that was checked out has been cleared after the
\* order was created
C19_Witness ==
    /\ lastOp.op = "checkoutSucceeded"
    /\ checkout.cleared
    /\ Len(checkout.startItems) = 2
    /\ Len(prev.items) = 2
    /\ items = <<>>
    /\ OrderCreated

\* C20: when the order-creation call of a checkout fails (transport
\* rejection or HTTP failure), clearCart is not invoked and the items are
\* the same after the failed checkout as before it, so that the checkout
\* can be retried with the same contents.
C20_FailedCheckoutKeepsCart ==
    /\ (checkout.phase # "idle" /\ OrderRefused) =>
           /\ ~checkout.cleared
           /\ checkout.phase \in {"processing", "error"}
           /\ checkout.interleaved = 0 => items = checkout.startItems
    /\ lastOp.op = "checkoutFailed" =>
           /\ checkout.phase = "error"
           /\ items = prev.items
           /\ storage = prev.storage

\* a checkout of two lines has failed on a response that is not ok
C20_Witness ==
    /\ lastOp.op = "checkoutFailed"
    /\ calls[CheckoutSlot].response # <<>>
    /\ ~calls[CheckoutSlot].response[1].ok
    /\ Len(items) = 2
    /\ items = checkout.startItems

\* C26: when cart operations interleave with a checkout in flight, the
\* clearCart made after the order is created discards only what was
\* ordered: the items present when clearCart runs are exactly the lines of
\* the getOrderData snapshot that was sent, so no unit added after the
\* snapshot is lost.
C26_ClearDiscardsOnlyTheOrder ==
    lastOp.op = "checkoutSucceeded" =>
        /\ prev.items = checkout.startItems
        /\ mapProductos(prev.items) = checkout.orderData[1].productos

====
